---------------------------- MODULE Spec2Model ----------------------------
(***************************************************************************)
(* A model of the two command-line clients of jlab-sensing/irrigation-demo *)
(*                                                                         *)
(*   src/remote_solenoid.py    the solenoid control client and its         *)
(*                             background status poller                    *)
(*   src/demoPullRequests.py   the DirtViz sensor-data client, its display *)
(*                             formatter and its interactive menu loop     *)
(*                                                                         *)
(* Specifications:                                                         *)
(*   Spec        the monitoring API of remote_solenoid.py: the functions   *)
(*               start_auto_monitoring and stop_auto_monitoring called in  *)
(*               any order, the polling threads they create, and time      *)
(*   SpecFair    Spec with the fairness the thread scheduler, the HTTP     *)
(*               timeout and the passage of time give                      *)
(*   SpecMain    one run of the remote_solenoid.py process: sys.argv is    *)
(*               chosen, the command is dispatched, the process stays or   *)
(*               exits; the polling thread and time run beside it          *)
(*   SpecSensor  one run of the demoPullRequests.py program: the menus,    *)
(*               the date prompts, the two queries and the formatter,      *)
(*               driven by the lines the user types and the answers of     *)
(*               the server                                                *)
(*   SpecSensorFair  SpecSensor with the fairness of the HTTP library: a   *)
(*               request whose answer, error or timeout is due returns     *)
(***************************************************************************)
EXTENDS Integers, Sequences, FiniteSets, TLC

(***************************************************************************)
(* Bounds of the model (not program constants).                            *)
(***************************************************************************)
\* polling threads that may be created in one behaviour
MaxThreads == 3
\* poll cycles one polling thread may begin
MaxCycles == 6
\* calls of start_auto_monitoring in one behaviour of Spec
MaxCalls == 4
\* the largest len(sys.argv) tried
MaxArgc == 5
\* the most readings one answer of the sensor API holds
MaxReadings == 2

(***************************************************************************)
(* Program constants of remote_solenoid.py.                                *)
(***************************************************************************)
\* get_system_status: requests.get(..., timeout=5)
HTTP_TIMEOUT == 5
\* start_auto_monitoring(check_interval=30), always called with the default
check_interval == 30
\* monitor_status_continuously: status_print_interval = 5
status_print_interval == 5
\* get_sen0308_stream: self.session.get(..., timeout=15)
STREAM_TIMEOUT == 15

\* monitoring_thread = None
None == 0
Tids == 1..MaxThreads

VARIABLES
    \* ---- remote_solenoid.py: module globals ----
    auto_monitoring_active, \* the process-wide active flag (line 13)
    monitoring_thread,      \* the thread handle: None or a thread id (line 14)
    \* ---- the threads running monitor_status_continuously ----
    poll,                   \* thread id -> [pc, cycle_count, i, status, timer]
    \* ---- standard output ----
    mainOut,                \* the last line the main thread printed
    pollOut,                \* the last line a polling thread printed
    \* ---- observation of calls and of time ----
    nStart,                 \* calls of start_auto_monitoring so far
    sinceStop,              \* seconds since stop cleared the flag, -1: not cleared
    stopPhase,              \* where the polling loop was when stop cleared the flag
    linesAfterStop,         \* status lines printed since stop cleared the flag
    lateLine,               \* a status line was printed > 1 s after that stop
    failStreak,             \* consecutive poll cycles whose fetch gave nothing
    \* ---- remote_solenoid.py: the main thread of the process ----
    mainPc,                 \* where the main thread is ("api": no process run)
    command,                \* sys.argv[1], "-" when absent
    argc,                   \* len(sys.argv)
    response,               \* send_command's response: "-" (None), "200", "non200"
    mainStatus,             \* what get_system_status returned to the main thread
    httpSent,               \* HTTP requests the main thread has sent
    diag,                   \* the diagnostics the main thread has printed
    escaped,                \* the exception that left send_command, "-" if none
    exitCode,               \* the exit status, -1 while the process runs
    netFailed,              \* a request of the main thread met a transport failure
    interrupted,            \* a KeyboardInterrupt was delivered
    \* ---- demoPullRequests.py: the interactive program ----
    sPc,                    \* where the program is ("idle": not run)
    sAction,                \* the top-level action under way or just ended
    sel,                    \* the chosen cell: [cell_id, sensor_name, measurement]
    tStart,                 \* the start of the time range
    tEnd,                   \* the end of the time range
    dateIn,                 \* the line last typed at a date prompt
    dateRes,                \* what get_valid_date did with it
    answer,                 \* the line last typed at a (y/n) prompt
    sOut,                   \* the last message the program printed
    call,                   \* the last call of a DirtVizClient method
    display,                \* the last call of format_data_display
    reqTimeout,             \* the timeout of the request in flight, 0: none
    serverSilent            \* the server never answers the request in flight

monVars == <<auto_monitoring_active, monitoring_thread, poll, mainOut, pollOut,
             nStart, sinceStop, stopPhase, linesAfterStop, lateLine, failStreak>>

mainVars == <<mainPc, command, argc, response, mainStatus, httpSent, diag,
              escaped, exitCode, netFailed, interrupted>>

senVars == <<sPc, sAction, sel, tStart, tEnd, dateIn, dateRes, answer, sOut,
             call, display, reqTimeout, serverSilent>>

vars == <<monVars, mainVars, senVars>>

(***************************************************************************)
(* Threads.  A thread is alive from Thread.start() until its target        *)
(* function returns.                                                       *)
(***************************************************************************)
Unborn == [pc |-> "unborn", cycle_count |-> 0, i |-> 0, status |-> "-", timer |-> 0]
Dead   == [pc |-> "dead",   cycle_count |-> 0, i |-> 0, status |-> "-", timer |-> 0]

is_alive(t) == poll[t].pc \notin {"unborn", "dead"}

AliveThreads == {t \in Tids : is_alive(t)}

\* the thread id the next threading.Thread(...) gets
NewTid == Cardinality({t \in Tids : poll[t].pc # "unborn"}) + 1

\* the saturation of the sinceStop stopwatch
SinceCap == HTTP_TIMEOUT + 2

(***************************************************************************)
(* get_system_status(): the outcome of GET /status, and what it returns.   *)
(***************************************************************************)
HttpOutcomes == {"ok_status",     \* 200, a JSON status object
                 "ok_malformed",  \* 200, truthy JSON that is no status object
                 "ok_empty",      \* 200, falsy JSON ({} or null)
                 "ok_badjson",    \* 200, the body is no JSON: json() raises
                 "non200",        \* any other status code
                 "conn_refused",  \* transport failure
                 "timeout"}       \* no answer within HTTP_TIMEOUT

\* a bare except swallows every exception raised inside get_system_status
get_system_status_catches(exc) == TRUE

get_system_status(o) ==
    CASE o = "ok_status"    -> "status"
      [] o = "ok_malformed" -> "malformed"
      [] o = "ok_empty"     -> "empty"
      [] o = "ok_badjson"   -> IF get_system_status_catches("ValueError")
                               THEN "None" ELSE "raise"
      [] o = "non200"       -> "None"
      [] o \in {"conn_refused", "timeout"} ->
                               IF get_system_status_catches("RequestException")
                               THEN "None" ELSE "raise"

\* Python truthiness of what get_system_status returned
Truthy(status) == status \in {"status", "malformed"}

(***************************************************************************)
(* start_auto_monitoring() and stop_auto_monitoring(), as the main thread  *)
(* runs them.  Only the main thread calls them, and while the handle's     *)
(* thread is not alive no other thread exists, so each is one step.        *)
(***************************************************************************)
RunningThread_NoCheck == FALSE

\* line 83: monitoring_thread and monitoring_thread.is_alive()
RunningThread == monitoring_thread # None /\ is_alive(monitoring_thread)

start_auto_monitoring ==
    IF RunningThread
    THEN /\ mainOut' = "Auto monitoring is already running"
         /\ UNCHANGED <<auto_monitoring_active, monitoring_thread, poll,
                        sinceStop, stopPhase, linesAfterStop, lateLine>>
    ELSE /\ NewTid \in Tids
         /\ auto_monitoring_active' = TRUE
         /\ monitoring_thread' = NewTid
         /\ poll' = [poll EXCEPT ![NewTid] = [Unborn EXCEPT !.pc = "begin"]]
         /\ mainOut' = "Auto monitoring started"
         /\ sinceStop' = -1
         /\ stopPhase' = "none"
         /\ linesAfterStop' = 0
         /\ lateLine' = FALSE

\* the phase of the polling loop, as stop_auto_monitoring finds it
PhaseNow == IF AliveThreads = {} THEN "none"
            ELSE poll[CHOOSE t \in AliveThreads : TRUE].pc

stop_auto_monitoring ==
    /\ auto_monitoring_active' = FALSE
    /\ mainOut' = "Auto monitoring stopping..."
    /\ IF auto_monitoring_active
       THEN /\ sinceStop' = 0
            /\ stopPhase' = PhaseNow
            /\ linesAfterStop' = 0
            /\ lateLine' = FALSE
       ELSE UNCHANGED <<sinceStop, stopPhase, linesAfterStop, lateLine>>
    /\ UNCHANGED <<monitoring_thread, poll>>

(***************************************************************************)
(* monitor_status_continuously(check_interval), one step per statement     *)
(* that reads the shared flag, waits or prints.                            *)
(***************************************************************************)
\* lines 48-49: the "Starting ..." line, cycle_count = 0
PollBegin(t) ==
    /\ poll[t].pc = "begin"
    /\ poll' = [poll EXCEPT ![t].pc = "while", ![t].cycle_count = 0]
    /\ pollOut' = [kind |-> "starting", cycle |-> 0, tid |-> t]
    /\ UNCHANGED <<auto_monitoring_active, monitoring_thread, mainOut, nStart,
                   sinceStop, stopPhase, linesAfterStop, lateLine, failStreak>>
    /\ UNCHANGED <<mainVars, senVars>>

\* lines 52-57: the loop test; cycle_count += 1; the request is sent
PollWhile(t) ==
    /\ poll[t].pc = "while"
    /\ IF auto_monitoring_active
       THEN /\ poll[t].cycle_count < MaxCycles
            /\ poll' = [poll EXCEPT ![t].pc = "fetch",
                                    ![t].cycle_count = @ + 1,
                                    ![t].i = 0,
                                    ![t].timer = 0]
       ELSE poll' = [poll EXCEPT ![t].pc = "exit", ![t].i = 0]
    /\ UNCHANGED <<auto_monitoring_active, monitoring_thread, mainOut, pollOut,
                   nStart, sinceStop, stopPhase, linesAfterStop, lateLine,
                   failStreak>>
    /\ UNCHANGED <<mainVars, senVars>>

\* line 57: get_system_status() returns; a timeout only when the time is up
PollFetchReturn(t) ==
    /\ poll[t].pc = "fetch"
    /\ \E o \in HttpOutcomes :
        /\ (o = "timeout") => (poll[t].timer = HTTP_TIMEOUT)
        /\ poll' = [poll EXCEPT ![t].pc = "print",
                                ![t].status = get_system_status(o),
                                ![t].timer = 0]
    /\ UNCHANGED <<auto_monitoring_active, monitoring_thread, mainOut, pollOut,
                   nStart, sinceStop, stopPhase, linesAfterStop, lateLine,
                   failStreak>>
    /\ UNCHANGED <<mainVars, senVars>>

StatusLine_FromZero(status, cycle_count) ==
    IF status = "raise" THEN "error"
    ELSE IF Truthy(status)
         THEN IF status = "malformed" THEN "error"
              ELSE IF (cycle_count - 1) % status_print_interval = 0
                   THEN "full" ELSE "digest"
         ELSE "failure"

\* lines 59-69: which line the cycle prints
StatusLine(status, cycle_count) ==
    IF status = "raise" THEN "error"
    ELSE IF Truthy(status)
         THEN IF status = "malformed" THEN "error"
              ELSE IF cycle_count % status_print_interval = 0
                   THEN "full" ELSE "digest"
         ELSE "failure"

StatusLineKinds == {"full", "digest", "failure", "error"}

NextAfterPrint_Return(status) == "exit"

NextAfterPrint_Break(status) == IF Truthy(status) THEN "sleep_check" ELSE "exit"

\* where the loop goes after the cycle's line: always on to the sleep
NextAfterPrint(status) == "sleep_check"

PollPrint(t) ==
    /\ poll[t].pc = "print"
    /\ pollOut' = [kind |-> StatusLine(poll[t].status, poll[t].cycle_count),
                   cycle |-> poll[t].cycle_count, tid |-> t]
    /\ poll' = [poll EXCEPT ![t].pc = NextAfterPrint(poll[t].status),
                            ![t].status = "-", ![t].i = 0]
    /\ failStreak' = IF Truthy(poll[t].status) THEN 0 ELSE failStreak + 1
    /\ IF ~auto_monitoring_active /\ sinceStop >= 0
       THEN /\ linesAfterStop' = linesAfterStop + 1
            /\ lateLine' = (lateLine \/ sinceStop > 1)
       ELSE UNCHANGED <<linesAfterStop, lateLine>>
    /\ UNCHANGED <<auto_monitoring_active, monitoring_thread, mainOut, nStart,
                   sinceStop, stopPhase>>
    /\ UNCHANGED <<mainVars, senVars>>

SleepInterruptible_Not == FALSE

\* line 73: the sleep loop tests the flag before every one-second sleep
SleepInterruptible == TRUE

\* lines 72-74: for i in range(check_interval): if not active: break
PollSleepCheck(t) ==
    /\ poll[t].pc = "sleep_check"
    /\ IF poll[t].i >= check_interval
          \/ (SleepInterruptible /\ ~auto_monitoring_active)
       THEN poll' = [poll EXCEPT ![t].pc = "while", ![t].i = 0]
       ELSE poll' = [poll EXCEPT ![t].pc = "sleeping", ![t].timer = 0]
    /\ UNCHANGED <<auto_monitoring_active, monitoring_thread, mainOut, pollOut,
                   nStart, sinceStop, stopPhase, linesAfterStop, lateLine,
                   failStreak>>
    /\ UNCHANGED <<mainVars, senVars>>

\* line 75: time.sleep(1) is over
PollWake(t) ==
    /\ poll[t].pc = "sleeping"
    /\ poll[t].timer = 1
    /\ poll' = [poll EXCEPT ![t].pc = "sleep_check", ![t].i = @ + 1,
                            ![t].timer = 0]
    /\ UNCHANGED <<auto_monitoring_active, monitoring_thread, mainOut, pollOut,
                   nStart, sinceStop, stopPhase, linesAfterStop, lateLine,
                   failStreak>>
    /\ UNCHANGED <<mainVars, senVars>>

\* line 77: "Status monitoring stopped"; the target returns, the thread ends
PollExit(t) ==
    /\ poll[t].pc = "exit"
    /\ poll' = [poll EXCEPT ![t] = Dead]
    /\ pollOut' = [kind |-> "stopped", cycle |-> 0, tid |-> t]
    /\ UNCHANGED <<auto_monitoring_active, monitoring_thread, mainOut, nStart,
                   sinceStop, stopPhase, linesAfterStop, lateLine, failStreak>>
    /\ UNCHANGED <<mainVars, senVars>>

(***************************************************************************)
(* Time, in seconds.  A statement that neither waits for the network nor   *)
(* sleeps takes no time: a second passes only when every live thread is    *)
(* inside requests.get (for at most HTTP_TIMEOUT seconds) or inside        *)
(* time.sleep(1) (for one second).                                         *)
(***************************************************************************)
CanWait(t) ==
    \/ ~is_alive(t)
    \/ poll[t].pc = "fetch" /\ poll[t].timer < HTTP_TIMEOUT
    \/ poll[t].pc = "sleeping" /\ poll[t].timer < 1

Tick ==
    /\ AliveThreads # {}
    /\ \A t \in Tids : CanWait(t)
    /\ poll' = [t \in Tids |->
                  IF is_alive(t) THEN [poll[t] EXCEPT !.timer = @ + 1]
                  ELSE poll[t]]
    /\ sinceStop' = IF sinceStop >= 0 /\ sinceStop < SinceCap
                    THEN sinceStop + 1 ELSE sinceStop
    /\ UNCHANGED <<auto_monitoring_active, monitoring_thread, mainOut, pollOut,
                   nStart, stopPhase, linesAfterStop, lateLine, failStreak>>
    /\ UNCHANGED <<mainVars, senVars>>

(***************************************************************************)
(* demoPullRequests.py: values.                                            *)
(***************************************************************************)
\* a line typed where int(input(...)) reads it
IntLines == {"0", "1", "2", "3", "4", "5", "6", "7", "30", "-5", "1350",
             "abc", ""}

\* int(line): the number, or ValueError
ParseInt(line) ==
    CASE line = "0" -> [ok |-> TRUE, val |-> 0]
      [] line = "1" -> [ok |-> TRUE, val |-> 1]
      [] line = "2" -> [ok |-> TRUE, val |-> 2]
      [] line = "3" -> [ok |-> TRUE, val |-> 3]
      [] line = "4" -> [ok |-> TRUE, val |-> 4]
      [] line = "5" -> [ok |-> TRUE, val |-> 5]
      [] line = "6" -> [ok |-> TRUE, val |-> 6]
      [] line = "7" -> [ok |-> TRUE, val |-> 7]
      [] line = "30" -> [ok |-> TRUE, val |-> 30]
      [] line = "-5" -> [ok |-> TRUE, val |-> -5]
      [] line = "1350" -> [ok |-> TRUE, val |-> 1350]
      [] OTHER -> [ok |-> FALSE, val |-> 0]

\* a line typed at a (y/n) prompt
AnswerLines == {"y", "Y", "n", "N", "yes", ""}

\* str.lower() on those lines
Lower(line) ==
    CASE line = "Y" -> "y"
      [] line = "N" -> "n"
      [] OTHER -> line

Affirmative_CaseSensitive(line) == line = "y"

\* lines 320-321, 379-380: input(...).lower() != 'y' leaves the loop
Affirmative(line) == Lower(line) = "y"

NoSel == [cell_id |-> 0, sensor_name |-> "-", measurement |-> "-"]

\* get_cell_info(choice), NoSel for None
get_cell_info(choice) ==
    CASE choice = 1 -> [cell_id |-> 1350, sensor_name |-> "sen0257",
                        measurement |-> "pressure"]
      [] choice = 2 -> [cell_id |-> 1353, sensor_name |-> "yfs210c",
                        measurement |-> "flow"]
      [] choice = 3 -> [cell_id |-> 1448, sensor_name |-> "sen0308",
                        measurement |-> "humidity"]
      [] OTHER -> NoSel

\* handle_sen0308_stream: time_windows.get(choice, 10)
time_windows(choice) ==
    CASE choice = 1 -> 10
      [] choice = 2 -> 30
      [] choice = 3 -> 60
      [] OTHER -> 10

(***************************************************************************)
(* get_valid_date(prompt).  A typed line is modelled by what                *)
(* date_input.split('-') gives: a sequence of fields, each a decimal       *)
(* number (num) or not; the empty line is the empty sequence.              *)
(***************************************************************************)
DateYears  == {1999, 2000, 2025, 2100, 2101}
DateMonths == {0, 2, 4, 12, 13}
DateDays   == {0, 29, 30, 31, 32}

F(n) == [num |-> TRUE, val |-> n]
Word == [num |-> FALSE, val |-> 0]

DateLines ==
    {<<>>}
    \cup {<<F(y), F(m), F(d)>> : y \in DateYears, m \in DateMonths, d \in DateDays}
    \cup {<<Word>>, <<F(2025)>>, <<F(2025), F(8)>>,
          <<F(2025), Word, F(21)>>, <<F(2025), F(8), F(21), F(1)>>}

IsLeap(y) == y % 4 = 0 /\ (y % 100 # 0 \/ y % 400 = 0)

DaysInMonth(y, m) ==
    CASE m = 2 -> IF IsLeap(y) THEN 29 ELSE 28
      [] m \in {4, 6, 9, 11} -> 30
      [] OTHER -> 31

datetime_ok_NoCalendar(y, m, d) == TRUE

\* line 234: datetime(year, month, day, 0, 0, 0) raises ValueError unless the
\* day exists in that month of that year
datetime_ok(y, m, d) ==
    /\ y >= 1 /\ y <= 9999
    /\ m >= 1 /\ m <= 12
    /\ d >= 1 /\ d <= DaysInMonth(y, m)

NoDate == [kind |-> "-", y |-> 0, m |-> 0, d |-> 0, hms |-> "-"]
\* datetime.now(ca_tz) and what get_time_range derives from it
Now == [kind |-> "now", y |-> 0, m |-> 0, d |-> 0, hms |-> "now"]
TodayMidnight == [kind |-> "today", y |-> 0, m |-> 0, d |-> 0, hms |-> "00:00:00"]
WeekAgoMidnight == [kind |-> "today-7d", y |-> 0, m |-> 0, d |-> 0, hms |-> "00:00:00"]

\* one pass of the while loop of get_valid_date on a typed line:
\* "returned" with the date, or "reprompt" after the message
get_valid_date(line) ==
    IF line = <<>>
    THEN [res |-> "returned", msg |-> "-", date |-> TodayMidnight]
    ELSE IF Len(line) # 3 \/ \E k \in 1..Len(line) : ~line[k].num
    THEN [res |-> "reprompt", msg |-> "Invalid date format", date |-> NoDate]
    ELSE LET year == line[1].val
             month == line[2].val
             day == line[3].val
         IN IF year < 2000 \/ year > 2100 \/ month < 1 \/ month > 12
               \/ day < 1 \/ day > 31
            THEN [res |-> "reprompt", msg |-> "Invalid date values", date |-> NoDate]
            ELSE IF ~datetime_ok(year, month, day)
            THEN [res |-> "reprompt", msg |-> "Invalid date format", date |-> NoDate]
            ELSE [res |-> "returned", msg |-> "-",
                  date |-> [kind |-> "date", y |-> year, m |-> month, d |-> day,
                            hms |-> "00:00:00"]]

NoDateRes == [res |-> "-", msg |-> "-", date |-> NoDate]

(***************************************************************************)
(* The answers of the sensor API and pandas.DataFrame(data).               *)
(* A JSON answer is an array of records (kind "list") or an object of      *)
(* equally long columns (kind "object"); cols are the keys, rows the       *)
(* readings in the order delivered.                                        *)
(***************************************************************************)
ColNames == {"timestamp", "data", "unit"}
DataValues == {1, 4}

RowSeqs == UNION {[1..n -> DataValues] : n \in 0..MaxReadings}

\* the k-th reading: its UTC hour and its value
Rows(vals) == [k \in 1..Len(vals) |-> [timestamp |-> 10 + k, data |-> vals[k]]]

Payloads == {[kind |-> kd, cols |-> c, rows |-> Rows(v)] :
                kd \in {"list", "object"}, c \in SUBSET ColNames, v \in RowSeqs}

\* [] : what get_sen0308_stream returns on failure
EmptyList == [kind |-> "list", cols |-> {}, rows |-> <<>>]

\* Python truthiness of a JSON answer: a non-empty array or object
DataTruthy(data) ==
    IF data.kind = "list" THEN Len(data.rows) > 0 ELSE data.cols # {}

\* pd.DataFrame(data): the columns and the rows
DataFrame(data) ==
    [cols |-> IF data.kind = "list" /\ data.rows = <<>> THEN {} ELSE data.cols,
     rows |-> data.rows]

\* df.empty
DfEmpty(df) == Len(df.rows) = 0 \/ df.cols = {}

(***************************************************************************)
(* format_data_display(df, cell_id, measurement_type).                     *)
(***************************************************************************)
NA == [na |-> TRUE, a |-> 0, b |-> 0]
Val(x, y) == [na |-> FALSE, a |-> x, b |-> y]

\* line 93-94: UTC to America/Los_Angeles (standard time), then strftime
ToPacific(ts) == ts - 8

RECURSIVE SumData(_)
SumData(rows) == IF rows = <<>> THEN 0 ELSE rows[1].data + SumData(Tail(rows))

RECURSIVE MaxData(_)
MaxData(rows) ==
    IF Len(rows) = 1 THEN rows[1].data
    ELSE LET r == MaxData(Tail(rows)) IN IF rows[1].data > r THEN rows[1].data ELSE r

\* f"{x:.2f}" of sum/n, in hundredths (no tie occurs for n < 8)
Fmt2(sum, n) == (200 * sum + n) \div (2 * n)

HasRows_Always(df) == TRUE

\* lines 122, 145: len(df) > 0
HasRows(df) == Len(df.rows) > 0

\* lines 97, 126-127: data_values.empty
DataValuesEmpty(df) == "data" \notin df.cols \/ Len(df.rows) = 0

\* lines 100-115: the display name of the measurement
MeasurementName(measurement_type) ==
    CASE measurement_type = "pressure" -> "Pressure"
      [] measurement_type = "humidity" -> "Humidity"
      [] measurement_type = "flow rate" -> "Flow Rate"
      [] measurement_type = "flow" -> "Flow"
      [] measurement_type = "temp" -> "Temp"
      [] OTHER -> measurement_type

\* lines 100-115: the unit
UnitOf(df, measurement_type) ==
    CASE measurement_type = "pressure" -> "kPa"
      [] measurement_type = "humidity" -> "%"
      [] measurement_type = "flow rate" -> "L/min"
      [] OTHER -> IF "unit" \in df.cols /\ Len(df.rows) > 0
                  THEN "unit of first record" ELSE "units"

NoDisplay == [called |-> FALSE, rowsIn |-> 0, raised |-> "-", name |-> "-",
              unit |-> "-", timeRange |-> NA, points |-> 0, avg |-> NA,
              max |-> NA, body |-> "-"]

format_data_display(df, cell_id, measurement_type) ==
    LET n == Len(df.rows)
        base == [NoDisplay EXCEPT !.called = TRUE,
                                  !.name = MeasurementName(measurement_type),
                                  !.unit = UnitOf(df, measurement_type)]
    IN
    IF HasRows(df) /\ (n = 0 \/ "timestamp" \notin df.cols)
    THEN \* line 121: df['timestamp'].iloc[0] raises (KeyError, IndexError)
         [base EXCEPT !.raised = IF n = 0 THEN "IndexError" ELSE "KeyError"]
    ELSE LET stats ==
                [base EXCEPT
                   !.timeRange = IF HasRows(df)
                                 THEN Val(ToPacific(df.rows[1].timestamp),
                                          ToPacific(df.rows[n].timestamp))
                                 ELSE NA,
                   !.points = n,
                   !.avg = IF ~DataValuesEmpty(df)
                           THEN Val(Fmt2(SumData(df.rows), n), 0) ELSE NA,
                   !.max = IF ~DataValuesEmpty(df)
                           THEN Val(100 * MaxData(df.rows), 0) ELSE NA]
         IN IF HasRows(df)
            THEN IF "data" \notin df.cols \/ n = 0
                 THEN \* line 149: df[display_columns] raises KeyError
                      [stats EXCEPT !.raised = "KeyError", !.body = "header"]
                 ELSE [stats EXCEPT !.body = "table"]
            ELSE [stats EXCEPT !.body = "No data available to display"]

(***************************************************************************)
(* DirtVizClient.                                                          *)
(***************************************************************************)
\* how a request of the session ends
SensorOutcomes == {"ok",          \* 2xx and a JSON body
                   "http_error",  \* 4xx or 5xx: raise_for_status raises HTTPError
                   "conn_error",  \* transport failure: ConnectionError
                   "timeout",     \* no answer within the timeout: Timeout
                   "bad_json",    \* 2xx, the body is no JSON: JSONDecodeError
                   "unexpected"}  \* an exception that is no RequestException

\* the exception a failed request raises, "-" for none
RaisedBy(o) ==
    CASE o = "ok" -> "-"
      [] o = "http_error" -> "HTTPError"
      [] o = "conn_error" -> "ConnectionError"
      [] o = "timeout" -> "Timeout"
      [] o = "bad_json" -> "JSONDecodeError"
      [] OTHER -> "Exception"

\* requests.exceptions.RequestException and its subclasses
IsRequestException(exc) ==
    exc \in {"HTTPError", "ConnectionError", "Timeout", "JSONDecodeError"}

NoCall == [fn |-> "-", outcome |-> "-", ret |-> EmptyList, raised |-> "-",
           diag |-> "-"]

\* lines 22-39: no try block; every exception reaches the caller
get_sensor_data(o, data) ==
    [fn |-> "get_sensor_data", outcome |-> o,
     ret |-> IF o = "ok" THEN data ELSE EmptyList,
     raised |-> RaisedBy(o), diag |-> "-"]

stream_handler_RequestOnly(exc) ==
    IF IsRequestException(exc) THEN "Error getting stream" ELSE "escape"

\* lines 73-80: which except clause of get_sen0308_stream takes an exception
stream_handler(exc) ==
    IF IsRequestException(exc) THEN "Error getting stream"
    ELSE "Unexpected error"

\* lines 41-80
get_sen0308_stream(o, data) ==
    LET exc == RaisedBy(o) IN
    IF exc = "-"
    THEN [fn |-> "get_sen0308_stream", outcome |-> o, ret |-> data,
          raised |-> "-", diag |-> "-"]
    ELSE IF stream_handler(exc) = "escape"
    THEN [fn |-> "get_sen0308_stream", outcome |-> o, ret |-> EmptyList,
          raised |-> exc, diag |-> "-"]
    ELSE [fn |-> "get_sen0308_stream", outcome |-> o, ret |-> EmptyList,
          raised |-> "-", diag |-> stream_handler(exc)]

\* lines 370-376: which except clause of the menu loop takes an exception
main_handler(exc) ==
    IF exc \in {"ValueError", "JSONDecodeError"} THEN "Please enter a valid number."
    ELSE IF exc = "HTTPError" THEN "HTTP Error"
    ELSE "Unexpected error"

\* lines 314-317: the except clauses of handle_sen0308_stream
stream_menu_handler(exc) ==
    IF exc \in {"ValueError", "JSONDecodeError"} THEN "Please enter a valid number"
    ELSE "Error"

SenIdle ==
    /\ sPc = "idle"
    /\ sAction = "-"
    /\ sel = NoSel
    /\ tStart = NoDate
    /\ tEnd = NoDate
    /\ dateIn = <<>>
    /\ dateRes = NoDateRes
    /\ answer = "-"
    /\ sOut = "-"
    /\ call = NoCall
    /\ display = NoDisplay
    /\ reqTimeout = 0
    /\ serverSilent = FALSE

(***************************************************************************)
(* Spec: the monitoring API called in any order.                           *)
(***************************************************************************)
MonInit ==
    /\ auto_monitoring_active = FALSE
    /\ monitoring_thread = None
    /\ poll = [t \in Tids |-> Unborn]
    /\ mainOut = "-"
    /\ pollOut = [kind |-> "-", cycle |-> 0, tid |-> 0]
    /\ nStart = 0
    /\ sinceStop = -1
    /\ stopPhase = "none"
    /\ linesAfterStop = 0
    /\ lateLine = FALSE
    /\ failStreak = 0

\* no process run: the functions are called directly
MainIdle ==
    /\ mainPc = "api"
    /\ command = "-"
    /\ argc = 0
    /\ response = "-"
    /\ mainStatus = "-"
    /\ httpSent = 0
    /\ diag = {}
    /\ escaped = "-"
    /\ exitCode = -1
    /\ netFailed = FALSE
    /\ interrupted = FALSE

Init == MonInit /\ MainIdle /\ SenIdle

CallStart ==
    /\ mainPc = "api"
    /\ nStart < MaxCalls
    /\ start_auto_monitoring
    /\ nStart' = nStart + 1
    /\ UNCHANGED <<pollOut, failStreak>>
    /\ UNCHANGED <<mainVars, senVars>>

CallStop ==
    /\ mainPc = "api"
    /\ stop_auto_monitoring
    /\ UNCHANGED <<pollOut, nStart, failStreak>>
    /\ UNCHANGED <<mainVars, senVars>>

PollStep ==
    \E t \in Tids :
        \/ PollBegin(t)
        \/ PollWhile(t)
        \/ PollFetchReturn(t)
        \/ PollPrint(t)
        \/ PollSleepCheck(t)
        \/ PollWake(t)
        \/ PollExit(t)

Next == CallStart \/ CallStop \/ PollStep \/ Tick

Spec == Init /\ [][Next]_vars

SpecFair == Spec /\ WF_vars(PollStep) /\ WF_vars(Tick)


(***************************************************************************)
(* SpecMain: one run of the remote_solenoid.py process.                    *)
(***************************************************************************)
Commands == {"open", "close", "timed", "state", "set_thresholds",
             "auto_irrigation", "auto_on", "auto_off", "status",
             "moisture_check"}

\* len(sys.argv) each command is documented to take (print_usage and the
\* "Format:" / "Usage:" lines of the argument checks)
ExpectedArgc(c) ==
    CASE c \in {"set_thresholds", "auto_irrigation"} -> 4
      [] c = "timed" -> 3
      [] OTHER -> 2

\* the argument-count checks send_command makes
ArgCountOk(c, n) ==
    CASE c \in {"open", "close", "state"} -> ~(n > 2)
      [] c = "timed" -> ~(n < 3) /\ ~(n > 3)
      [] c \in {"set_thresholds", "auto_irrigation"} -> ~(n # 4)
      [] OTHER -> TRUE

send_command_handler_None(exc) == "escape"

\* lines 241-245: which except clause of send_command takes an exception
send_command_handler(exc) ==
    IF exc = "RequestException" THEN "connect"
    ELSE IF exc \in {"SystemExit", "KeyboardInterrupt"} THEN "escape"
    ELSE "unexpected"

\* an exception raised inside send_command's try block, after printing
\* the lines `printed` (the last of them `line`)
Raise(exc, printed, line) ==
    LET h == send_command_handler(exc) IN
    /\ diag' = diag \cup printed \cup (IF h = "escape" THEN {} ELSE {h})
    /\ escaped' = IF h = "escape" THEN exc ELSE escaped
    /\ exitCode' = IF h = "escape" THEN 1 ELSE exitCode
    /\ mainPc' = IF h = "escape" THEN "atexit" ELSE "after_dispatch"
    /\ mainOut' = CASE h = "connect" -> "Error: Could not connect to ESP32"
                    [] h = "unexpected" -> "Unexpected error"
                    [] OTHER -> line

\* lines 279-290: the command is missing, or send_command is called
MainEntry ==
    /\ mainPc = "entry"
    /\ IF argc < 2
       THEN /\ mainOut' = "Error: No solenoid command received."
            /\ diag' = diag \cup {"no_command"}
            /\ exitCode' = 1
            /\ mainPc' = "atexit"
       ELSE /\ mainPc' = "dispatch"
            /\ UNCHANGED <<mainOut, diag, exitCode>>
    /\ UNCHANGED <<auto_monitoring_active, monitoring_thread, poll, pollOut,
                   nStart, sinceStop, stopPhase, linesAfterStop, lateLine,
                   failStreak>>
    /\ UNCHANGED <<command, argc, response, mainStatus, httpSent, escaped,
                   netFailed, interrupted>>
    /\ UNCHANGED senVars

\* lines 107-231: the branch of the command, up to its first HTTP request
MainDispatch ==
    /\ mainPc = "dispatch"
    /\ IF command \notin Commands
       THEN /\ Raise("SystemExit", {"unknown_command"}, "Error: Unknown command")
            /\ UNCHANGED httpSent
       ELSE IF ~ArgCountOk(command, argc)
       THEN /\ Raise("SystemExit", {"usage"}, "Error: usage")
            /\ UNCHANGED httpSent
       ELSE /\ mainPc' = IF command \in {"status", "moisture_check"}
                         THEN "get_status" ELSE "request"
            /\ httpSent' = httpSent + 1
            /\ UNCHANGED <<mainOut, diag, escaped, exitCode>>
    /\ UNCHANGED <<auto_monitoring_active, monitoring_thread, poll, pollOut,
                   nStart, sinceStop, stopPhase, linesAfterStop, lateLine,
                   failStreak>>
    /\ UNCHANGED <<command, argc, response, mainStatus, netFailed, interrupted>>
    /\ UNCHANGED senVars

\* the requests.post / requests.get of the command returns or raises
MainResponse ==
    /\ mainPc = "request"
    /\ \E o \in {"200", "non200", "conn_refused", "timeout"} :
        IF o \in {"conn_refused", "timeout"}
        THEN /\ netFailed' = TRUE
             /\ Raise("RequestException", {}, mainOut)
             /\ UNCHANGED <<response, httpSent>>
        ELSE /\ response' = o
             /\ mainOut' = "Response: ..."
             /\ mainPc' = CASE command = "auto_irrigation" -> "start"
                            [] command = "auto_on" -> "get_status"
                            [] command = "auto_off" -> "stop"
                            [] OTHER -> "check_response"
             /\ httpSent' = IF command = "auto_on" THEN httpSent + 1 ELSE httpSent
             /\ UNCHANGED <<diag, escaped, exitCode, netFailed>>
    /\ UNCHANGED <<auto_monitoring_active, monitoring_thread, poll, pollOut,
                   nStart, sinceStop, stopPhase, linesAfterStop, lateLine,
                   failStreak>>
    /\ UNCHANGED <<command, argc, mainStatus, interrupted>>
    /\ UNCHANGED senVars

\* get_system_status() returns to status, moisture_check or auto_on, and the
\* lines printed from its result (lines 189-190, 206-216, 220-226)
MainGetStatus ==
    /\ mainPc = "get_status"
    /\ \E o \in HttpOutcomes :
        LET st == get_system_status(o) IN
        /\ mainStatus' = st
        /\ netFailed' = (netFailed \/ o \in {"conn_refused", "timeout"})
        /\ IF st = "raise"
           THEN Raise("RequestException", {}, mainOut)
           ELSE IF st = "malformed" /\ command # "moisture_check"
           THEN Raise("AttributeError", {}, mainOut)
           ELSE /\ mainPc' = IF command = "auto_on" THEN "start"
                             ELSE "check_response"
                /\ diag' = IF st = "status" THEN diag
                           ELSE diag \cup {"no_status"}
                /\ mainOut' = IF st = "status" THEN "SYSTEM STATUS"
                              ELSE "Could not fetch system status"
                /\ UNCHANGED <<escaped, exitCode>>
    /\ UNCHANGED <<auto_monitoring_active, monitoring_thread, poll, pollOut,
                   nStart, sinceStop, stopPhase, linesAfterStop, lateLine,
                   failStreak>>
    /\ UNCHANGED <<command, argc, response, httpSent, interrupted>>
    /\ UNCHANGED senVars

\* lines 180, 193: start_auto_monitoring()
MainStart ==
    /\ mainPc = "start"
    /\ start_auto_monitoring
    /\ nStart' = nStart + 1
    /\ mainPc' = "check_response"
    /\ UNCHANGED <<pollOut, failStreak>>
    /\ UNCHANGED <<command, argc, response, mainStatus, httpSent, diag,
                   escaped, exitCode, netFailed, interrupted>>
    /\ UNCHANGED senVars

\* line 202: stop_auto_monitoring()
MainStop ==
    /\ mainPc = "stop"
    /\ stop_auto_monitoring
    /\ mainPc' = "check_response"
    /\ UNCHANGED <<pollOut, nStart, failStreak>>
    /\ UNCHANGED <<command, argc, response, mainStatus, httpSent, diag,
                   escaped, exitCode, netFailed, interrupted>>
    /\ UNCHANGED senVars

\* lines 233-239: the status code of the response, when there is one
MainCheckResponse ==
    /\ mainPc = "check_response"
    /\ IF response = "non200"
       THEN /\ diag' = diag \cup {"http_status"}
            /\ mainOut' = "Error: Server responded with status"
       ELSE /\ mainOut' = IF response = "-" THEN mainOut ELSE "Response: ..."
            /\ UNCHANGED diag
    /\ mainPc' = "after_dispatch"
    /\ UNCHANGED <<auto_monitoring_active, monitoring_thread, poll, pollOut,
                   nStart, sinceStop, stopPhase, linesAfterStop, lateLine,
                   failStreak>>
    /\ UNCHANGED <<command, argc, response, mainStatus, httpSent, escaped,
                   exitCode, netFailed, interrupted>>
    /\ UNCHANGED senVars

KeepAliveCondition_Always == TRUE

\* line 293: if auto_monitoring_active
KeepAliveCondition == auto_monitoring_active

\* lines 292-293: stay or leave; leaving, the script ends with status 0
MainAfterDispatch ==
    /\ mainPc = "after_dispatch"
    /\ IF KeepAliveCondition
       THEN mainPc' = "announce" /\ UNCHANGED exitCode
       ELSE mainPc' = "atexit" /\ exitCode' = 0
    /\ UNCHANGED monVars
    /\ UNCHANGED <<command, argc, response, mainStatus, httpSent, diag,
                   escaped, netFailed, interrupted>>
    /\ UNCHANGED senVars

\* line 294, before the try block is entered
MainAnnounce ==
    /\ mainPc = "announce"
    /\ mainOut' = "Auto monitoring running. Press Ctrl+C to stop."
    /\ mainPc' = "keepalive"
    /\ UNCHANGED <<auto_monitoring_active, monitoring_thread, poll, pollOut,
                   nStart, sinceStop, stopPhase, linesAfterStop, lateLine,
                   failStreak>>
    /\ UNCHANGED <<command, argc, response, mainStatus, httpSent, diag,
                   escaped, exitCode, netFailed, interrupted>>
    /\ UNCHANGED senVars

\* lines 296-297: while auto_monitoring_active: time.sleep(1)
MainKeepAlive ==
    /\ mainPc = "keepalive"
    /\ IF auto_monitoring_active
       THEN UNCHANGED <<mainPc, exitCode>>
       ELSE mainPc' = "atexit" /\ exitCode' = 0
    /\ UNCHANGED monVars
    /\ UNCHANGED <<command, argc, response, mainStatus, httpSent, diag,
                   escaped, netFailed, interrupted>>
    /\ UNCHANGED senVars

\* Ctrl+C while the process stays: inside the try block it is handled
\* (lines 298-300), on line 294 it ends the script with a traceback
Interrupt ==
    /\ mainPc \in {"announce", "keepalive"}
    /\ interrupted' = TRUE
    /\ mainPc' = "atexit"
    /\ IF mainPc = "keepalive"
       THEN /\ stop_auto_monitoring
            /\ exitCode' = 0
            /\ UNCHANGED <<pollOut, nStart, failStreak, escaped>>
       ELSE /\ escaped' = "KeyboardInterrupt"
            /\ exitCode' = 130
            /\ UNCHANGED monVars
    /\ UNCHANGED <<command, argc, response, mainStatus, httpSent, diag,
                   netFailed>>
    /\ UNCHANGED senVars

\* lines 275-277, 282: the atexit handler cleanup() runs stop_auto_monitoring
MainAtExit ==
    /\ mainPc = "atexit"
    /\ stop_auto_monitoring
    /\ mainPc' = "finalize"
    /\ UNCHANGED <<pollOut, nStart, failStreak>>
    /\ UNCHANGED <<command, argc, response, mainStatus, httpSent, diag,
                   escaped, exitCode, netFailed, interrupted>>
    /\ UNCHANGED senVars

\* the interpreter ends: daemon threads (line 91) end with the process
ProcessExit ==
    /\ mainPc = "finalize"
    /\ mainPc' = "exited"
    /\ poll' = [t \in Tids |-> IF is_alive(t) THEN Dead ELSE poll[t]]
    /\ UNCHANGED <<auto_monitoring_active, monitoring_thread, mainOut, pollOut,
                   nStart, sinceStop, stopPhase, linesAfterStop, lateLine,
                   failStreak>>
    /\ UNCHANGED <<command, argc, response, mainStatus, httpSent, diag,
                   escaped, exitCode, netFailed, interrupted>>
    /\ UNCHANGED senVars

InitMain ==
    /\ MonInit
    /\ SenIdle
    /\ mainPc = "entry"
    /\ argc \in 1..MaxArgc
    /\ command \in (IF argc = 1 THEN {"-"} ELSE Commands \cup {"bogus"})
    /\ response = "-"
    /\ mainStatus = "-"
    /\ httpSent = 0
    /\ diag = {}
    /\ escaped = "-"
    /\ exitCode = -1
    /\ netFailed = FALSE
    /\ interrupted = FALSE

NextMain ==
    \/ MainEntry
    \/ MainDispatch
    \/ MainResponse
    \/ MainGetStatus
    \/ MainStart
    \/ MainStop
    \/ MainCheckResponse
    \/ MainAfterDispatch
    \/ MainAnnounce
    \/ MainKeepAlive
    \/ Interrupt
    \/ MainAtExit
    \/ ProcessExit
    \/ PollStep
    \/ Tick

SpecMain == InitMain /\ [][NextMain]_vars

(***************************************************************************)
(* SpecSensor: one run of the demoPullRequests.py program.                 *)
(***************************************************************************)
MonIdle == UNCHANGED <<monVars, mainVars>>

\* lines 37 and 69: session.get sends a request; the server answers it at
\* some time or never does.  No request is in flight at any other place.
ServerChoice ==
    serverSilent' \in IF sPc' \in {"fetch", "stream_fetch"} THEN BOOLEAN
                      ELSE {FALSE}


\* what format_data_display printed, or the handler's message when it raised
ShownMain(d) == IF d.raised # "-" THEN main_handler(d.raised) ELSE d.body

ShownStream(d) == IF d.raised # "-" THEN stream_menu_handler(d.raised) ELSE d.body

\* lines 328-358: the menu is shown and a choice is read
SMenu ==
    /\ sPc = "menu"
    /\ \E line \in IntLines :
        LET c == ParseInt(line) IN
        IF ~c.ok
        THEN /\ sOut' = main_handler("ValueError")
             /\ sPc' = "ask"
             /\ sAction' = "-"
             /\ sel' = NoSel
        ELSE IF c.val = 6
        THEN /\ sOut' = "Exiting program. Goodbye!"
             /\ sPc' = "exited"
             /\ sAction' = "-"
             /\ sel' = NoSel
        ELSE IF c.val = 4
        THEN /\ sOut' = "SEN0308 HUMIDITY STREAMING MENU"
             /\ sPc' = "stream_menu"
             /\ sAction' = "stream"
             /\ sel' = NoSel
        ELSE IF c.val = 5
        THEN /\ sOut' = "Enter cell ID: "
             /\ sPc' = "custom_cell"
             /\ sAction' = "custom"
             /\ sel' = NoSel
        ELSE IF get_cell_info(c.val) = NoSel
        THEN /\ sOut' = "Invalid choice. Please try again."
             /\ sPc' = "menu"
             /\ sAction' = "-"
             /\ sel' = NoSel
        ELSE /\ sOut' = "Fetching data for cell"
             /\ sPc' = "time_menu"
             /\ sAction' = "preset"
             /\ sel' = get_cell_info(c.val)
    /\ tStart' = NoDate
    /\ tEnd' = NoDate
    /\ dateIn' = <<>>
    /\ dateRes' = NoDateRes
    /\ call' = NoCall
    /\ display' = NoDisplay
    /\ answer' = "-"
    /\ UNCHANGED reqTimeout
    /\ ServerChoice
    /\ MonIdle

\* lines 344-346, 358: the cell id, the sensor name and the measurement
SCustomCell ==
    /\ sPc = "custom_cell"
    /\ \E line \in {"1350", "abc"}, meas \in {"flow rate", "temp"} :
        LET c == ParseInt(line) IN
        IF ~c.ok
        THEN /\ sOut' = main_handler("ValueError")
             /\ sPc' = "ask"
             /\ UNCHANGED sel
        ELSE /\ sOut' = "Fetching data for cell"
             /\ sPc' = "time_menu"
             /\ sel' = [cell_id |-> c.val, sensor_name |-> "custom",
                        measurement |-> meas]
    /\ UNCHANGED <<sAction, tStart, tEnd, dateIn, dateRes, answer, call,
                   display, reqTimeout>>
    /\ ServerChoice
    /\ MonIdle

\* get_time_range, lines 244-273, and for choices 1 and 2 the request of
\* get_sensor_data (line 37, sent without a timeout)
STimeMenu ==
    /\ sPc = "time_menu"
    /\ \E line \in IntLines :
        LET c == ParseInt(line) IN
        IF ~c.ok
        THEN /\ sOut' = "Please enter a valid number."
             /\ UNCHANGED <<sPc, tStart, tEnd>>
        ELSE IF c.val = 1
        THEN /\ tStart' = TodayMidnight /\ tEnd' = Now
             /\ sPc' = "fetch"
             /\ UNCHANGED sOut
        ELSE IF c.val = 2
        THEN /\ tStart' = WeekAgoMidnight /\ tEnd' = Now
             /\ sPc' = "fetch"
             /\ UNCHANGED sOut
        ELSE IF c.val = 3
        THEN /\ sPc' = "date_start"
             /\ sOut' = "Enter start date (YYYY-MM-DD): "
             /\ UNCHANGED <<tStart, tEnd>>
        ELSE /\ sOut' = "Invalid choice. Please select 1-3."
             /\ UNCHANGED <<sPc, tStart, tEnd>>
    /\ reqTimeout' = 0
    /\ UNCHANGED <<sAction, sel, dateIn, dateRes, answer, call, display>>
    /\ ServerChoice
    /\ MonIdle

\* line 263: get_valid_date("Enter start date (YYYY-MM-DD): "), one line typed
SDateStart ==
    /\ sPc = "date_start"
    /\ \E line \in DateLines :
        LET r == get_valid_date(line) IN
        /\ dateIn' = line
        /\ dateRes' = r
        /\ IF r.res = "returned"
           THEN /\ tStart' = r.date
                /\ sPc' = "date_end"
                /\ sOut' = "Enter end date (YYYY-MM-DD): "
           ELSE /\ sOut' = r.msg
                /\ UNCHANGED <<tStart, sPc>>
    /\ UNCHANGED <<sAction, sel, tEnd, answer, call, display, reqTimeout>>
    /\ ServerChoice
    /\ MonIdle

\* lines 264-267: the end date, set to 23:59:59; then the request of
\* get_sensor_data (line 37)
SDateEnd ==
    /\ sPc = "date_end"
    /\ \E line \in DateLines :
        LET r == get_valid_date(line) IN
        /\ dateIn' = line
        /\ dateRes' = r
        /\ IF r.res = "returned"
           THEN /\ tEnd' = [r.date EXCEPT !.hms = "23:59:59"]
                /\ sPc' = "fetch"
                /\ UNCHANGED sOut
           ELSE /\ sOut' = r.msg
                /\ UNCHANGED <<tEnd, sPc>>
    /\ UNCHANGED <<sAction, sel, tStart, answer, call, display, reqTimeout>>
    /\ ServerChoice
    /\ MonIdle

\* lines 37 and 69: a request the server answers ends with that answer (or a
\* transport error); one it never answers ends only by the timeout the
\* request carries, and session.get without timeout= waits without limit
MayEnd(o) ==
    IF serverSilent THEN o = "timeout" /\ reqTimeout > 0 ELSE o # "timeout"

\* lines 362-376: get_sensor_data returns or raises; the data are shown
SFetchReturn ==
    /\ sPc = "fetch"
    /\ \E o \in SensorOutcomes, data \in Payloads :
        /\ MayEnd(o)
        /\ (o # "ok") => (data = EmptyList)
        /\ LET c == get_sensor_data(o, data)
               df == DataFrame(c.ret)
               d == [format_data_display(df, sel.cell_id, sel.measurement)
                        EXCEPT !.rowsIn = Len(df.rows)]
           IN /\ call' = c
              /\ IF c.raised # "-"
                 THEN /\ sOut' = main_handler(c.raised)
                      /\ display' = NoDisplay
                 ELSE IF DataTruthy(c.ret)
                 THEN /\ display' = d
                      /\ sOut' = ShownMain(d)
                 ELSE /\ sOut' = "No data received for the specified time range."
                      /\ display' = NoDisplay
    /\ sPc' = "ask"
    /\ tStart' = NoDate
    /\ tEnd' = NoDate
    /\ dateIn' = <<>>
    /\ dateRes' = NoDateRes
    /\ reqTimeout' = 0
    /\ UNCHANGED <<sAction, sel, answer>>
    /\ ServerChoice
    /\ MonIdle

\* lines 378-382: "Would you like to view another cell? (y/n)"
SAsk ==
    /\ sPc = "ask"
    /\ \E line \in AnswerLines :
        /\ answer' = line
        /\ IF Affirmative(line)
           THEN sPc' = "menu" /\ UNCHANGED sOut
           ELSE sPc' = "exited" /\ sOut' = "Exiting program. Goodbye!"
    /\ UNCHANGED <<sAction, sel, tStart, tEnd, dateIn, dateRes, call, display,
                   reqTimeout>>
    /\ ServerChoice
    /\ MonIdle

\* handle_sen0308_stream, lines 278-300: the streaming menu and its choice;
\* for a predefined window the request of get_sen0308_stream (line 69)
SStreamMenu ==
    /\ sPc = "stream_menu"
    /\ \E line \in IntLines :
        LET c == ParseInt(line) IN
        IF ~c.ok
        THEN /\ sOut' = stream_menu_handler("ValueError")
             /\ sPc' = "stream_ask"
             /\ UNCHANGED reqTimeout
        ELSE IF c.val = 5
        THEN /\ sPc' = "menu"
             /\ UNCHANGED <<sOut, reqTimeout>>
        ELSE IF c.val = 4
        THEN /\ sPc' = "stream_window"
             /\ sOut' = "Enter time window in seconds: "
             /\ UNCHANGED reqTimeout
        ELSE /\ sPc' = "stream_fetch"
             /\ sOut' = "Streaming sen0308 humidity data"
             /\ reqTimeout' = STREAM_TIMEOUT
    /\ call' = NoCall
    /\ display' = NoDisplay
    /\ answer' = "-"
    /\ UNCHANGED <<sAction, sel, tStart, tEnd, dateIn, dateRes>>
    /\ ServerChoice
    /\ MonIdle

\* lines 287-296: the custom time window
SStreamWindow ==
    /\ sPc = "stream_window"
    /\ \E line \in IntLines :
        LET c == ParseInt(line) IN
        IF ~c.ok
        THEN /\ sOut' = "Please enter a valid number"
             /\ sPc' = "stream_menu"
             /\ UNCHANGED reqTimeout
        ELSE IF c.val <= 0
        THEN /\ sOut' = "Time window must be positive"
             /\ sPc' = "stream_menu"
             /\ UNCHANGED reqTimeout
        ELSE /\ sPc' = "stream_fetch"
             /\ sOut' = "Streaming sen0308 humidity data"
             /\ reqTimeout' = STREAM_TIMEOUT
    /\ UNCHANGED <<sAction, sel, tStart, tEnd, dateIn, dateRes, answer, call,
                   display>>
    /\ ServerChoice
    /\ MonIdle

\* lines 303-317: get_sen0308_stream returns; the data are shown
SStreamFetchReturn ==
    /\ sPc = "stream_fetch"
    /\ \E o \in SensorOutcomes, data \in Payloads :
        /\ MayEnd(o)
        /\ (o # "ok") => (data = EmptyList)
        /\ LET c == get_sen0308_stream(o, data)
               df == DataFrame(c.ret)
               d == [format_data_display(df, 1448, "humidity")
                        EXCEPT !.rowsIn = Len(df.rows)]
           IN /\ call' = c
              /\ IF c.raised # "-"
                 THEN /\ sOut' = stream_menu_handler(c.raised)
                      /\ display' = NoDisplay
                 ELSE IF DataTruthy(c.ret)
                 THEN IF ~DfEmpty(df)
                      THEN /\ display' = d
                           /\ sOut' = ShownStream(d)
                      ELSE /\ sOut' = "No data received from stream"
                           /\ display' = NoDisplay
                 ELSE /\ sOut' = "Failed to get stream data"
                      /\ display' = NoDisplay
    /\ sPc' = "stream_ask"
    /\ reqTimeout' = 0
    /\ UNCHANGED <<sAction, sel, tStart, tEnd, dateIn, dateRes, answer>>
    /\ ServerChoice
    /\ MonIdle

\* lines 319-322, 339-340: "Would you like to get another stream? (y/n)";
\* leaving the streaming menu returns to the top of the main loop
SStreamAsk ==
    /\ sPc = "stream_ask"
    /\ \E line \in AnswerLines :
        /\ answer' = line
        /\ sPc' = IF Affirmative(line) THEN "stream_menu" ELSE "menu"
    /\ UNCHANGED <<sAction, sel, tStart, tEnd, dateIn, dateRes, sOut, call,
                   display, reqTimeout>>
    /\ ServerChoice
    /\ MonIdle

InitSensor ==
    /\ MonInit
    /\ MainIdle
    /\ sPc = "menu"
    /\ sAction = "-"
    /\ sel = NoSel
    /\ tStart = NoDate
    /\ tEnd = NoDate
    /\ dateIn = <<>>
    /\ dateRes = NoDateRes
    /\ answer = "-"
    /\ sOut = "-"
    /\ call = NoCall
    /\ display = NoDisplay
    /\ reqTimeout = 0
    /\ serverSilent = FALSE

NextSensor ==
    \/ SMenu
    \/ SCustomCell
    \/ STimeMenu
    \/ SDateStart
    \/ SDateEnd
    \/ SFetchReturn
    \/ SAsk
    \/ SStreamMenu
    \/ SStreamWindow
    \/ SStreamFetchReturn
    \/ SStreamAsk

SpecSensor == InitSensor /\ [][NextSensor]_vars

\* session.get returns once the answer, the error or the timeout is there;
\* nothing is assumed about the user, who may leave any prompt unanswered
SpecSensorFair ==
    SpecSensor /\ WF_vars(SFetchReturn) /\ WF_vars(SStreamFetchReturn)

(***************************************************************************)
(* Claims about the status poller, checked under Spec and SpecFair.        *)
(***************************************************************************)

\* C1: at most one polling thread is alive at a time, and a call of
\* start_auto_monitoring made while a polling thread is alive prints the
\* "already running" line, creates no thread and changes neither the active
\* flag nor the thread handle.
C1_SinglePoller ==
    /\ [](Cardinality(AliveThreads) <= 1)
    /\ [][(nStart' = nStart + 1 /\ AliveThreads # {}) =>
             /\ mainOut' = "Auto monitoring is already running"
             /\ AliveThreads' = AliveThreads
             /\ UNCHANGED <<auto_monitoring_active, monitoring_thread, poll>>]_vars

\* C1 witness: a second start call was answered "already running" while the
\* one polling thread is alive.
C1_Witness ==
    /\ nStart >= 2
    /\ mainOut = "Auto monitoring is already running"
    /\ Cardinality(AliveThreads) = 1

\* C2 as stated: no status line (full summary, digest, failure or error
\* line) is printed more than one second after the stop call that cleared
\* the flag, wherever in its cycle the loop was.
C2_NoLineLaterThanOneSecond == ~lateLine

\* C2 as amended: once stop has cleared the flag the loop starts no new
\* fetch and no new sleep; it outlives the stop by more than one second only
\* to finish a status fetch that was in flight at the stop; at most one
\* status line follows the stop, and only when the loop was fetching or
\* about to print; a line later than one second after the stop comes only
\* from such an in-flight fetch.  A loop that was sleeping has exited, or is
\* about to, one second after the stop, and prints nothing.
C2_StopBound ==
    (~auto_monitoring_active /\ sinceStop >= 0) =>
        /\ \A t \in AliveThreads :
              /\ poll[t].pc = "fetch" => stopPhase = "fetch"
              /\ poll[t].pc = "sleeping" =>
                     (stopPhase = "sleeping" /\ sinceStop <= poll[t].timer)
              /\ sinceStop > 1 => stopPhase = "fetch"
        /\ linesAfterStop <= 1
        /\ linesAfterStop = 1 => stopPhase \in {"fetch", "print"}
        /\ lateLine => stopPhase = "fetch"

\* C2 witness: stop cleared the flag while the loop slept; one second later
\* the thread has ended without printing a status line.
C2_Witness ==
    /\ ~auto_monitoring_active
    /\ stopPhase = "sleeping"
    /\ sinceStop = 1
    /\ linesAfterStop = 0
    /\ AliveThreads = {}
    /\ pollOut.kind = "stopped"

\* C7: the polling loop is left only when the flag is found cleared; a cycle
\* whose fetch gave nothing prints the failure line and goes on to the sleep;
\* and from the print step of every cycle the loop reaches the fetch of the
\* next one unless the flag is cleared, however many fetches failed in a row.
C7_LoopGoesOn ==
    /\ [][\A t \in Tids :
            (poll[t].pc \notin {"exit", "dead"} /\ poll'[t].pc \in {"exit", "dead"})
                => ~auto_monitoring_active]_vars
    /\ [][\A t \in Tids :
            (poll[t].pc = "print" /\ poll'[t].pc # "print"
             /\ poll[t].status \in {"None", "empty"})
                => (pollOut'.kind = "failure" /\ poll'[t].pc = "sleep_check")]_vars
    /\ \A t \in Tids :
            (poll[t].pc = "print" /\ poll[t].cycle_count < MaxCycles)
                ~> (poll[t].pc = "fetch" \/ ~auto_monitoring_active)

\* C7 witness: three fetches in a row gave nothing, the flag is still set
\* and the thread is in its next cycle.
C7_Witness ==
    /\ failStreak >= 3
    /\ auto_monitoring_active
    /\ \E t \in Tids : poll[t].pc = "fetch" /\ poll[t].cycle_count >= 4


(***************************************************************************)
(* Claims about the solenoid client process, checked under SpecMain.       *)
(***************************************************************************)

\* C3 as stated: for each of the ten commands, a call with a wrong number of
\* positional arguments prints a usage error and exits with code 1, having
\* sent no HTTP request and started no poller.
C3_WrongArgCountRejected ==
    (/\ command \in Commands
     /\ argc # ExpectedArgc(command)
     /\ mainPc \notin {"entry", "dispatch"})
        => /\ "usage" \in diag
           /\ exitCode = 1
           /\ httpSent = 0
           /\ monitoring_thread = None
           /\ nStart = 0

\* C4: a transport failure (connection refused, timeout) of an HTTP call of
\* a command or of a poll cycle never leaves get_system_status or
\* send_command as an exception: the main thread prints the connection
\* diagnostic or the "could not fetch" line, the polling thread prints its
\* failure line and lives on.
C4_NetworkFailureCaught ==
    /\ [](/\ \A t \in Tids : poll[t].status # "raise"
          /\ mainStatus # "raise"
          /\ escaped \in {"-", "SystemExit", "KeyboardInterrupt"}
          /\ netFailed => (diag \cap {"connect", "no_status"} # {}))
    /\ [][\A t \in Tids :
            (/\ poll[t].pc = "print"
             /\ poll[t].status = "None"
             /\ poll'[t].pc \notin {"print", "dead"})
                => (pollOut'.kind = "failure" /\ poll'[t].pc = "sleep_check")]_vars

\* C4 witness: the status request of auto_on and a poll cycle both failed
\* and were reported; no exception is on its way out.
C4_Witness ==
    /\ netFailed
    /\ "no_status" \in diag
    /\ pollOut.kind = "failure"
    /\ escaped = "-"
    /\ mainPc = "keepalive"

\* C8: after dispatch the process stays only when the command started
\* monitoring; it leaves that wait only on a keyboard interrupt, which ends
\* with the flag cleared and the process gone; a process that ended without
\* an interrupt had started no monitoring.
C8_StaysIffMonitoring ==
    /\ [](/\ mainPc \in {"announce", "keepalive"} =>
                (/\ monitoring_thread # None
                 /\ auto_monitoring_active
                 /\ nStart = 1
                 /\ command \in {"auto_on", "auto_irrigation"})
          /\ (mainPc \in {"atexit", "finalize", "exited"} /\ ~interrupted) =>
                (monitoring_thread = None /\ nStart = 0)
          /\ interrupted => mainPc \in {"atexit", "finalize", "exited"}
          /\ mainPc \in {"finalize", "exited"} => ~auto_monitoring_active
          /\ mainPc = "exited" => AliveThreads = {})
    /\ [][(mainPc \in {"announce", "keepalive"}
           /\ mainPc' \notin {"announce", "keepalive"}) => interrupted']_vars

\* C8 witness: auto_on started monitoring, the process stayed, Ctrl+C came,
\* and the process has ended with the flag cleared.
C8_Witness ==
    /\ command = "auto_on"
    /\ monitoring_thread # None
    /\ interrupted
    /\ escaped = "-"
    /\ mainPc = "exited"
    /\ ~auto_monitoring_active
    /\ exitCode = 0


(***************************************************************************)
(* Claims about the sensor client, checked under SpecSensor.               *)
(***************************************************************************)
Feb30 == <<F(2025), F(2), F(30)>>

\* C5 as stated: the line "2025-02-30" passes the bounds check and is
\* therefore accepted and returned as a date.
C5_Feb30Accepted ==
    (dateIn = Feb30 /\ dateRes.res # "-") => dateRes.res = "returned"

\* C5 as amended: a line of three numeric fields is accepted exactly when its
\* fields pass the bounds check (year 2000..2100, month 1..12, day 1..31)
\* and the day exists in that month of that year; a line that passes the
\* bounds check but names no real day, such as "2025-02-30", gets the
\* "Invalid date format" message and the prompt is repeated.
C5_CalendarChecked ==
    (/\ dateRes.res # "-"
     /\ Len(dateIn) = 3
     /\ \A k \in 1..3 : dateIn[k].num) =>
        LET y == dateIn[1].val
            m == dateIn[2].val
            d == dateIn[3].val
            inBounds == /\ y >= 2000 /\ y <= 2100
                        /\ m >= 1 /\ m <= 12
                        /\ d >= 1 /\ d <= 31
            leap == (y % 4 = 0 /\ y % 100 # 0) \/ y % 400 = 0
            realDay == /\ ~(m = 2 /\ d > 29)
                       /\ ~(m = 2 /\ d = 29 /\ ~leap)
                       /\ ~(m \in {4, 6, 9, 11} /\ d > 30)
        IN /\ (dateRes.res = "returned") <=> (inBounds /\ realDay)
           /\ (dateRes.res = "returned") =>
                 (dateRes.date.y = y /\ dateRes.date.m = m /\ dateRes.date.d = d)
           /\ (inBounds /\ ~realDay) =>
                 /\ dateRes.res = "reprompt"
                 /\ dateRes.msg = "Invalid date format"
                 /\ sPc \in {"date_start", "date_end"}
                 /\ sOut = "Invalid date format"
           /\ (~inBounds) => (dateRes.res = "reprompt"
                              /\ dateRes.msg = "Invalid date values")

\* C5 witness: "2025-02-30" was typed at the start-date prompt and the
\* prompt is repeated.
C5_Witness ==
    /\ dateIn = Feb30
    /\ dateRes.res = "reprompt"
    /\ dateRes.msg = "Invalid date format"
    /\ sPc = "date_start"

\* C6 as stated: the menu is shown again only after the top-level repeat
\* prompt, and at a repeat prompt any answer other than 'y' ends the program,
\* for cell queries and for streaming mode alike.
C6_AlwaysAsksThenExits ==
    [][/\ (sPc' = "menu" /\ sPc \notin {"menu", "stream_menu"}) => sPc = "ask"
       /\ (sPc \in {"ask", "stream_ask"} /\ sPc' # sPc /\ Lower(answer') # "y")
             => sPc' = "exited"]_vars

\* C6 as amended: a preset or custom cell query, also one that ended in an
\* error, is followed by the top-level prompt; there the answer y or Y shows
\* the menu again and any other answer ends the program.  Streaming mode
\* never reaches that prompt: leaving the streaming menu (choice 5, or an
\* answer other than y/Y to "another stream?") shows the main menu again
\* at once and does not end the program.
C6_AsksAfterCellQuery ==
    /\ [][/\ (sPc = "fetch" /\ sPc' # "fetch") => sPc' = "ask"
          /\ (sPc = "custom_cell" /\ sPc' \notin {"custom_cell", "time_menu"})
                => sPc' = "ask"
          /\ (sPc = "ask" /\ sPc' # "ask") =>
                IF Lower(answer') = "y" THEN sPc' = "menu" ELSE sPc' = "exited"
          /\ (sPc' = "menu" /\ sPc # "menu") =>
                \/ sPc = "ask"
                \/ sAction = "stream" /\ sPc \in {"stream_menu", "stream_ask"}
          /\ (sPc = "stream_ask" /\ sPc' # "stream_ask") =>
                IF Lower(answer') = "y" THEN sPc' = "stream_menu"
                ELSE sPc' = "menu"]_vars
    /\ [](sPc = "ask" => sAction # "stream")

\* C6 witness: a preset cell query ended in an HTTP error, the prompt was
\* answered "n" and the program has ended.
C6_Witness ==
    /\ sAction = "preset"
    /\ call.fn = "get_sensor_data"
    /\ call.raised = "HTTPError"
    /\ answer = "n"
    /\ sPc = "exited"

\* C9: format_data_display called with a frame of zero readings raises
\* nothing, renders time range, mean and max as "N/A", counts 0 data points
\* and prints the "No data available to display" line instead of a table.
C9_EmptyFrameRendersNA ==
    (display.called /\ display.rowsIn = 0) =>
        /\ display.raised = "-"
        /\ display.timeRange = NA
        /\ display.avg = NA
        /\ display.max = NA
        /\ display.points = 0
        /\ display.body = "No data available to display"

\* C9 witness: the server answered an object of empty columns, the frame
\* built from it has no rows, and the formatter has printed the no-data line.
C9_Witness ==
    /\ display.called
    /\ display.rowsIn = 0
    /\ display.body = "No data available to display"
    /\ call.ret.kind = "object"
    /\ sPc = "ask"

\* C10: get_sen0308_stream never raises to its caller; on a request that
\* failed (HTTP error status, transport error, timeout, undecodable body,
\* unexpected exception) it prints a diagnostic and returns the empty
\* sequence.  get_sensor_data raises HTTPError on an HTTP error status.
C10_StreamNeverFails ==
    /\ (call.fn = "get_sen0308_stream") => call.raised = "-"
    /\ (call.fn = "get_sen0308_stream" /\ call.outcome # "ok") =>
          /\ call.ret = EmptyList
          /\ call.diag \in {"Error getting stream", "Unexpected error"}
          /\ sOut = "Failed to get stream data"
    /\ (call.fn = "get_sensor_data" /\ call.outcome = "http_error") =>
          /\ call.raised = "HTTPError"
          /\ (sPc = "ask") => sOut = "HTTP Error"

\* C10 witness: a streaming request ended with an exception that is no
\* RequestException, and the streaming menu goes on to its prompt.
C10_Witness ==
    /\ call.fn = "get_sen0308_stream"
    /\ call.outcome = "unexpected"
    /\ call.diag = "Unexpected error"
    /\ call.ret = EmptyList
    /\ sPc = "stream_ask"


\* C11: every request of the sensor client carries a timeout, so each
\* request, of get_sensor_data and of get_sen0308_stream alike, eventually
\* returns a response or a timeout error.  Checked under SpecSensorFair.
C11_EveryRequestReturns ==
    /\ [](sPc \in {"fetch", "stream_fetch"} => reqTimeout > 0)
    /\ (sPc = "fetch") ~> (sPc = "ask")
    /\ (sPc = "stream_fetch") ~> (sPc = "stream_ask")


(***************************************************************************)
(* Further claims about the status poller, checked under Spec.             *)
(***************************************************************************)
\* C12: a polling thread numbers its cycles 1, 2, 3, ...: the number starts
\* at 0, grows by one at every entry of the loop body and changes nowhere
\* else, whether the fetch of the cycle before failed or not.  A cycle whose
\* fetch returned a status object prints the full summary when its number
\* is a multiple of 5 and the one-line digest otherwise; a cycle whose fetch
\* returned nothing prints the failure line with the cycle's number.
C12_FullSummaryEveryFifthCycle ==
    /\ [][\A t \in Tids :
            (is_alive(t) /\ poll'[t].pc # "dead") =>
                poll'[t].cycle_count =
                    IF poll[t].pc = "begin" THEN 0
                    ELSE IF poll[t].pc = "while" /\ poll'[t].pc = "fetch"
                         THEN poll[t].cycle_count + 1
                         ELSE poll[t].cycle_count]_vars
    /\ [][\A t \in Tids :
            (poll[t].pc = "print" /\ poll'[t].pc # "print") =>
                /\ poll[t].cycle_count >= 1
                /\ pollOut'.cycle = poll[t].cycle_count
                /\ pollOut'.tid = t
                /\ (poll[t].status = "status") =>
                      pollOut'.kind = IF poll[t].cycle_count % 5 = 0
                                      THEN "full" ELSE "digest"
                /\ (poll[t].status \in {"None", "empty"}) =>
                      pollOut'.kind = "failure"]_vars
    /\ [](pollOut.kind = "full" => (pollOut.cycle >= 5 /\ pollOut.cycle % 5 = 0))
    /\ [](pollOut.kind = "digest" => (pollOut.cycle >= 1 /\ pollOut.cycle % 5 # 0))

\* C12 witness: the fifth cycle of a thread has printed the full summary.
C12_Witness ==
    /\ pollOut.kind = "full"
    /\ pollOut.cycle = 5
    /\ poll[pollOut.tid].pc = "sleep_check"
    /\ poll[pollOut.tid].cycle_count = 5


\* C13: whenever the flag auto_monitoring_active is set, the thread of the
\* handle monitoring_thread is alive and has not left its polling loop: it
\* is about to enter the loop or inside a cycle, never at the "stopped"
\* line and never dead.  (A thread may be alive while the flag is cleared.)
C13_ActiveFlagHasPoller ==
    auto_monitoring_active =>
        /\ monitoring_thread # None
        /\ is_alive(monitoring_thread)
        /\ poll[monitoring_thread].pc \in
              {"begin", "while", "fetch", "print", "sleep_check", "sleeping"}

\* C13 witness: monitoring was stopped and started again; the flag is set,
\* the first thread is dead and the second one sleeps inside its loop.
C13_Witness ==
    /\ auto_monitoring_active
    /\ monitoring_thread = 2
    /\ poll[1].pc = "dead"
    /\ poll[2].pc = "sleeping"
    /\ poll[2].cycle_count >= 1


(***************************************************************************)
(* A further claim about the solenoid client process, checked under        *)
(* SpecMain.                                                               *)
(***************************************************************************)
\* C14: for auto_on and auto_irrigation start_auto_monitoring is called
\* only after the enabling POST returned a response and before its status
\* code is looked at; once send_command is over the poller has been started
\* whenever the POST returned a response, whatever its status code, and has
\* not been started when the POST raised a transport error; for auto_off a
\* POST that raised a transport error is not followed by
\* stop_auto_monitoring inside send_command.
C14_StartFollowsResponse ==
    /\ [](mainPc \in {"start", "stop"} =>
             (response \in {"200", "non200"} /\ "http_status" \notin diag))
    /\ []((mainPc = "after_dispatch"
           /\ command \in {"auto_on", "auto_irrigation"}
           /\ response \in {"200", "non200"})
             => (nStart = 1 /\ auto_monitoring_active
                 /\ is_alive(monitoring_thread)))
    /\ []((mainPc = "after_dispatch"
           /\ command \in {"auto_on", "auto_irrigation"}
           /\ response = "-")
             => (nStart = 0 /\ ~auto_monitoring_active /\ AliveThreads = {}))
    /\ [][(mainPc = "request" /\ command = "auto_off"
           /\ mainPc' # "request" /\ response' = "-")
             => (/\ mainPc' = "after_dispatch"
                 /\ auto_monitoring_active' = auto_monitoring_active
                 /\ mainOut' = "Error: Could not connect to ESP32")]_vars

=============================================================================
